---- MODULE Spec2Model ----
(***************************************************************************)
(* Model of src/App.tsx: the Monte Carlo engine (generateGaussian, runGBM) *)
(* as a step machine, one action per block of runGBM, and the callbacks of *)
(* the page that call it (runAnalysis, triggerSimulation).                 *)
(*                                                                         *)
(* Spec       runGBM called directly with any arguments.                   *)
(* SpecApp    the page: user actions, timers, the klines fetch and the AI  *)
(*            promises interleave; a callback that calls runGBM runs to    *)
(*            its end before any other callback starts.                    *)
(*                                                                         *)
(* SpecGauss  one call of generateGaussian, draw by draw; the random       *)
(*            source yields a nonzero value in the end (fairness).         *)
(*                                                                         *)
(* Numbers.  A JavaScript number is a record [k, v]:                       *)
(*   k = "num"   a finite number, v in fixed-point units of 1/Scale        *)
(*   k = "nan"   NaN                                                       *)
(*   k = "inf"   +Infinity (v = 1) or -Infinity (v = -1)                   *)
(*   k = "undef" the value undefined (a read past the end of an array)     *)
(* Arithmetic rounds to the fixed-point grid as IEEE arithmetic rounds to  *)
(* the grid of doubles; 0/0 is NaN and NaN propagates, as in IEEE 754.     *)
(*                                                                         *)
(* Prices.  A price p > 0 is held by its natural logarithm (v = ln p in    *)
(* units of 1/Scale), so Math.log(current / prev) is a subtraction and     *)
(* currentPrice * Math.exp(shock) is an addition; ln is strictly           *)
(* increasing, so order and equality of prices are those of the held       *)
(* values.  Every other number (returns, mean, variance, volatility,       *)
(* drift, shock, Z) is held by its own value.                              *)
(***************************************************************************)
EXTENDS Integers, Sequences, FiniteSets, TLC

\* ---------------------------------------------------------------- bounds
\* fixed-point resolution: one unit is 1/Scale
Scale == 4
\* longest input price series
MaxLen == 3
\* largest horizon (days) and largest path count (numSimulations) tried
MaxDays == 2
MaxSims == 3
\* cap on days * numSimulations, the Gaussian draws of one call
MaxDraws == 6
\* number of sampled path indices (the code draws 30, App.tsx line 100)
SampleCount == 2
\* user actions (coin selections and duration changes) in one run of the page
MaxClicks == 2

\* ---------------------------------------------------------------- numbers
Num(v) == [k |-> "num", v |-> v]
NaN == [k |-> "nan", v |-> 0]
Inf(s) == [k |-> "inf", v |-> s]
Undefined == [k |-> "undef", v |-> 0]

IsNum(x) == x.k = "num"
IsInf(x) == x.k = "inf"
\* NaN, and undefined where an arithmetic operator converts it to a number
IsNaNish(x) == x.k \in {"nan", "undef"}

Abs(i) == IF i < 0 THEN -i ELSE i
Sgn(i) == IF i < 0 THEN -1 ELSE IF i > 0 THEN 1 ELSE 0

\* a / b rounded to the nearest integer (b # 0), halves away from zero
RoundDiv(a, b) ==
  LET s == IF (a < 0) # (b < 0) THEN -1 ELSE 1
  IN  s * ((2 * Abs(a) + Abs(b)) \div (2 * Abs(b)))

\* floor of the square root of x >= 0
ISqrt(x) == CHOOSE r \in 0..x : r * r <= x /\ (r + 1) * (r + 1) > x

\* a + b
FAdd(a, b) ==
  IF IsNaNish(a) \/ IsNaNish(b) THEN NaN
  ELSE IF IsInf(a) /\ IsInf(b) THEN (IF a.v = b.v THEN a ELSE NaN)
  ELSE IF IsInf(a) THEN a
  ELSE IF IsInf(b) THEN b
  ELSE Num(a.v + b.v)

\* -a
FNeg(a) ==
  IF IsNaNish(a) THEN NaN
  ELSE IF IsInf(a) THEN Inf(-a.v)
  ELSE Num(-a.v)

\* a - b
FSub(a, b) == FAdd(a, FNeg(b))

\* a * b
FMul(a, b) ==
  IF IsNaNish(a) \/ IsNaNish(b) THEN NaN
  ELSE IF IsInf(a) \/ IsInf(b)
       THEN (IF Sgn(a.v) * Sgn(b.v) = 0 THEN NaN ELSE Inf(Sgn(a.v) * Sgn(b.v)))
  ELSE Num(RoundDiv(a.v * b.v, Scale))

\* a / n for an integer n (a count, or the literal 2)
FDivInt(a, n) ==
  IF IsNaNish(a) THEN NaN
  ELSE IF IsInf(a) THEN (IF n < 0 THEN Inf(-a.v) ELSE a)
  ELSE IF n = 0 THEN (IF a.v = 0 THEN NaN ELSE Inf(Sgn(a.v)))
  ELSE Num(RoundDiv(a.v, n))

\* Math.sqrt(a)
FSqrt(a) ==
  IF IsNaNish(a) THEN NaN
  ELSE IF IsInf(a) THEN (IF a.v > 0 THEN a ELSE NaN)
  ELSE IF a.v < 0 THEN NaN
  ELSE Num(ISqrt(a.v * Scale))

\* Math.pow(a, 2)
FPow2(a) == FMul(a, a)

\* a <= b and a === b on numbers: false as soon as one side is NaN or undefined
FLeq(a, b) ==
  /\ ~IsNaNish(a)
  /\ ~IsNaNish(b)
  /\ IF IsInf(a) THEN (a.v < 0 \/ a = b)
     ELSE IF IsInf(b) THEN b.v > 0
     ELSE a.v <= b.v
FEq(a, b) == ~IsNaNish(a) /\ ~IsNaNish(b) /\ a = b

\* the sign of the comparator (a, b) => a - b as Array.prototype.sort reads
\* it: a NaN difference counts as 0
CmpSub(a, b) ==
  LET d == FSub(a, b)
  IN  IF IsNaNish(d) THEN 0 ELSE Sgn(d.v)

\* arr[i] of a JavaScript array held as a sequence (index 0 is element 1)
At(arr, i) == IF i \in 0..(Len(arr) - 1) THEN arr[i + 1] ELSE Undefined

\* Math.log(current / prev) for prices held by their logarithms
LogRatio(current, prev) == FSub(current, prev)

\* price * Math.exp(shock) for a price held by its logarithm
MulExp(price, shock) == FAdd(price, shock)

\* (x * 100).toFixed(2): the number of hundredths, or NaN / Infinity as is
ToFixed2Pct(x) ==
  IF IsNum(x) THEN Num(RoundDiv(x.v * 100 * 100, Scale)) ELSE x

\* ---------------------------------------------------------------- inputs
\* the price levels an input series is built from (logarithms of two prices)
PriceVals == {Num(0), Num(3)}

\* the values one call of generateGaussian can return: Z = -1 and Z = +1
GaussianVals == {Num(-Scale), Num(Scale)}

\* the historicalPrices argument: an array, or absent (null / undefined)
Arr(a) == [absent |-> FALSE, a |-> a]
Absent == [absent |-> TRUE, a |-> <<>>]

\* every array of at most n prices
SeriesUpTo(n) == UNION {[1..m -> PriceVals] : m \in 0..n}

\* ---------------------------------------------------------------- runGBM, pure parts
\* a faulty variant: line 63 without the test of the length
NoData_AbsentOnly(hp) == hp.absent

\* line 63: !historicalPrices || historicalPrices.length === 0
NoData(hp) == hp.absent \/ Len(hp.a) = 0

\* a faulty variant: line 78 reading the first price
LastPrice_First(hp) == At(hp, 0)

\* line 78: historicalPrices[historicalPrices.length - 1]
LastPrice(hp) == At(hp, Len(hp) - 1)

\* returns[i] = Math.log(historicalPrices[i] / historicalPrices[i - 1]), i = 1..length-1
LogReturns(hp) == [i \in 1..(Len(hp) - 1) |-> LogRatio(hp[i + 1], hp[i])]

\* returns.reduce((a, b) => a + b, 0)
RECURSIVE SumReduce(_)
SumReduce(s) ==
  IF Len(s) = 0 THEN Num(0)
  ELSE FAdd(SumReduce(SubSeq(s, 1, Len(s) - 1)), s[Len(s)])

\* returns.reduce((acc, val) => acc + Math.pow(val - meanReturn, 2), 0)
RECURSIVE SumSqReduce(_, _)
SumSqReduce(s, mean) ==
  IF Len(s) = 0 THEN Num(0)
  ELSE FAdd(SumSqReduce(SubSeq(s, 1, Len(s) - 1), mean),
            FPow2(FSub(s[Len(s)], mean)))

MeanReturn(rs) == FDivInt(SumReduce(rs), Len(rs))
Variance(rs, mean) == FDivInt(SumSqReduce(rs, mean), Len(rs) - 1)
Volatility(var) == FSqrt(var)
Drift(mean, var) == FSub(mean, FDivInt(var, 2))

\* a faulty variant: line 86 without the volatility factor
Shock_Unscaled(dr, vol, Z) == FAdd(dr, Z)

\* shock = drift + volatility * Z
Shock(dr, vol, Z) == FAdd(dr, FMul(vol, Z))

\* Array.prototype.sort with (a, b) => a.finalPrice - b.finalPrice: a stable
\* sort, here by insertion (x goes behind every element that does not compare
\* greater than it)
RECURSIVE TrailingGreater(_, _)
TrailingGreater(s, x) ==
  IF Len(s) = 0 THEN 0
  ELSE IF CmpSub(s[Len(s)].finalPrice, x.finalPrice) > 0
       THEN 1 + TrailingGreater(SubSeq(s, 1, Len(s) - 1), x)
       ELSE 0

InsertByFinalPrice(s, x) ==
  LET k == Len(s) - TrailingGreater(s, x)
  IN  SubSeq(s, 1, k) \o <<x>> \o SubSeq(s, k + 1, Len(s))

RECURSIVE SortByFinalPrice(_)
SortByFinalPrice(s) ==
  IF Len(s) = 0 THEN <<>>
  ELSE InsertByFinalPrice(SortByFinalPrice(SubSeq(s, 1, Len(s) - 1)), s[Len(s)])

\* a faulty variant: line 94 reading the price of the day before the last
SortedPathIndices_DayBefore(paths, d) ==
  SortByFinalPrice([i \in 1..Len(paths) |->
                      [index |-> i - 1, finalPrice |-> At(paths[i], d - 1)]])

\* allPaths.map((path, index) => ({ index, finalPrice: path[days] })).sort(...)
SortedPathIndices(paths, d) ==
  SortByFinalPrice([i \in 1..Len(paths) |->
                      [index |-> i - 1, finalPrice |-> At(paths[i], d)]])

\* Array.prototype.sort with (a, b) => a - b on numbers
RECURSIVE TrailingGreaterNum(_, _)
TrailingGreaterNum(s, x) ==
  IF Len(s) = 0 THEN 0
  ELSE IF CmpSub(s[Len(s)], x) > 0
       THEN 1 + TrailingGreaterNum(SubSeq(s, 1, Len(s) - 1), x)
       ELSE 0

InsertAscending(s, x) ==
  LET k == Len(s) - TrailingGreaterNum(s, x)
  IN  SubSeq(s, 1, k) \o <<x>> \o SubSeq(s, k + 1, Len(s))

RECURSIVE SortAscending(_)
SortAscending(s) ==
  IF Len(s) = 0 THEN <<>>
  ELSE InsertAscending(SortAscending(SubSeq(s, 1, Len(s) - 1)), s[Len(s)])

\* a faulty variant: line 104 without the sort
PricesAtT_Unsorted(paths, tt) == [i \in 1..Len(paths) |-> At(paths[i], tt)]

\* allPaths.map(path => path[t]).sort((a, b) => a - b)
PricesAtT(paths, tt) == SortAscending([i \in 1..Len(paths) |-> At(paths[i], tt)])

\* the percentages of lines 105-109: q = 0.05, 0.25, 0.5, 0.75, 0.95
Percentiles == {5, 25, 50, 75, 95}

\* a faulty variant: lines 105-109 with Math.ceil for Math.floor
PercentileIndex_Ceiling(n, pct) == (n * pct + 99) \div 100

\* Math.floor(numSimulations * q) for q = pct / 100.  In double arithmetic the
\* product n * 0.05, n * 0.25, n * 0.5, n * 0.75, n * 0.95 has the same floor
\* as the exact product for every n below 2^50.
PercentileIndex(n, pct) == (n * pct) \div 100

\* a faulty variant: line 112 counting the days from 1
DayData_DayFromOne(paths, tt, n, minIdx, maxIdx, rnd) ==
  LET pricesAtT == SortAscending([i \in 1..Len(paths) |-> At(paths[i], tt)])
      p5  == At(pricesAtT, (n * 5) \div 100)
      p25 == At(pricesAtT, (n * 25) \div 100)
      p50 == At(pricesAtT, (n * 50) \div 100)
      p75 == At(pricesAtT, (n * 75) \div 100)
      p95 == At(pricesAtT, (n * 95) \div 100)
  IN  [day |-> tt + 1,
       median |-> p50,
       range |-> <<p5, p95>>,
       innerRange |-> <<p25, p75>>,
       p5 |-> p5,
       p95 |-> p95,
       outlierMin |-> At(At(paths, minIdx), tt),
       outlierMax |-> At(At(paths, maxIdx), tt),
       sim |-> [i \in 1..Len(rnd) |-> At(At(paths, rnd[i]), tt)]]

\* a faulty variant: lines 118-119 reading the day's lowest and highest price
DayData_PerDayExtremes(paths, tt, n, minIdx, maxIdx, rnd) ==
  LET pricesAtT == SortAscending([i \in 1..Len(paths) |-> At(paths[i], tt)])
      p5  == At(pricesAtT, (n * 5) \div 100)
      p25 == At(pricesAtT, (n * 25) \div 100)
      p50 == At(pricesAtT, (n * 50) \div 100)
      p75 == At(pricesAtT, (n * 75) \div 100)
      p95 == At(pricesAtT, (n * 95) \div 100)
  IN  [day |-> tt,
       median |-> p50,
       range |-> <<p5, p95>>,
       innerRange |-> <<p25, p75>>,
       p5 |-> p5,
       p95 |-> p95,
       outlierMin |-> At(pricesAtT, 0),
       outlierMax |-> At(pricesAtT, Len(pricesAtT) - 1),
       sim |-> [i \in 1..Len(rnd) |-> At(At(paths, rnd[i]), tt)]]

\* a faulty variant: line 124 reading the sorted prices of the day
DayData_SimFromCrossSection(paths, tt, n, minIdx, maxIdx, rnd) ==
  LET pricesAtT == SortAscending([i \in 1..Len(paths) |-> At(paths[i], tt)])
      p5  == At(pricesAtT, (n * 5) \div 100)
      p25 == At(pricesAtT, (n * 25) \div 100)
      p50 == At(pricesAtT, (n * 50) \div 100)
      p75 == At(pricesAtT, (n * 75) \div 100)
      p95 == At(pricesAtT, (n * 95) \div 100)
  IN  [day |-> tt,
       median |-> p50,
       range |-> <<p5, p95>>,
       innerRange |-> <<p25, p75>>,
       p5 |-> p5,
       p95 |-> p95,
       outlierMin |-> At(At(paths, minIdx), tt),
       outlierMax |-> At(At(paths, maxIdx), tt),
       sim |-> [i \in 1..Len(rnd) |-> At(pricesAtT, rnd[i])]]

\* the object pushed for day t (lines 104-125); sim[i + 1] is the field sim<i>
DayData(paths, tt, n, minIdx, maxIdx, rnd) ==
  LET pricesAtT == PricesAtT(paths, tt)
      p5  == At(pricesAtT, PercentileIndex(n, 5))
      p25 == At(pricesAtT, PercentileIndex(n, 25))
      p50 == At(pricesAtT, PercentileIndex(n, 50))
      p75 == At(pricesAtT, PercentileIndex(n, 75))
      p95 == At(pricesAtT, PercentileIndex(n, 95))
  IN  [day |-> tt,
       median |-> p50,
       range |-> <<p5, p95>>,
       innerRange |-> <<p25, p75>>,
       p5 |-> p5,
       p95 |-> p95,
       outlierMin |-> At(At(paths, minIdx), tt),
       outlierMax |-> At(At(paths, maxIdx), tt),
       sim |-> [i \in 1..Len(rnd) |-> At(At(paths, rnd[i]), tt)]]

\* a faulty variant: lines 135-136 with p5 and p95 exchanged
StatsOf_LowHighSwapped(last, finalDay, vol) ==
  [current |-> last,
   projectedMedian |-> finalDay.median,
   projectedLow |-> finalDay.p95,
   projectedHigh |-> finalDay.p5,
   volatility |-> ToFixed2Pct(vol)]

\* the stats object of the returned result (lines 132-138)
StatsOf(last, finalDay, vol) ==
  [current |-> last,
   projectedMedian |-> finalDay.median,
   projectedLow |-> finalDay.p5,
   projectedHigh |-> finalDay.p95,
   volatility |-> ToFixed2Pct(vol)]

\* what runGBM returns: null, or { data, stats }
NoStats ==
  [current |-> Undefined, projectedMedian |-> Undefined, projectedLow |-> Undefined,
   projectedHigh |-> Undefined, volatility |-> Undefined]
NullResult == [isNull |-> TRUE, data |-> <<>>, stats |-> NoStats]
SimResult(data, stats) == [isNull |-> FALSE, data |-> data, stats |-> stats]

\* ---------------------------------------------------------------- state
VARIABLES
  \* runGBM: its arguments
  historicalPrices, days, numSimulations,
  \* runGBM: where the call stands, and who called
  pc, caller,
  \* runGBM: its locals
  returns, meanReturn, variance, volatility, drift, lastPrice,
  allPaths, sim, path, currentPrice, t,
  minPathIndex, maxPathIndex, randomIndices, aggregatedData,
  \* runGBM: how it ended: the value returned, the exception thrown
  ret, thrown,
  \* calls of generateGaussian made by the current call of runGBM
  gaussianCalls,
  \* the component CryptoMonteCarloAI: its React state
  view, selectedCoin, duration, simResult, historicalData,
  isSimulating, aiInsight, newsSummary, aiLoading, newsLoading,
  \* the callbacks waiting to run: timers, the klines fetch, the AI promises
  pending,
  \* the callback that is running runGBM, with what its closure captured
  frame,
  \* the exception that last escaped a callback
  uncaught,
  \* user actions so far
  clicks,
  \* generateGaussian: its locals u and v (in eighths), where the call stands,
  \* the value returned
  u, v, gpc, z,
  \* generateGaussian: the arguments Math.log was given, and whether
  \* Math.random has returned 0 during the call
  logArgs, zeroDrawn

gbmArgs == <<historicalPrices, days, numSimulations>>
gbmStats == <<returns, meanReturn, variance, volatility, drift, lastPrice>>
gbmPaths == <<allPaths, sim, path, currentPrice, t>>
gbmPicks == <<minPathIndex, maxPathIndex, randomIndices>>
gbmOut == <<ret, thrown>>
gbmVars ==
  <<gbmArgs, pc, caller, gbmStats, gbmPaths, gbmPicks, aggregatedData, gbmOut,
    gaussianCalls>>

\* the page's variables: runGBM touches none of them
uiState ==
  <<view, selectedCoin, duration, simResult, historicalData, isSimulating,
    aiInsight, newsSummary, aiLoading, newsLoading>>
uiVars == <<uiState, pending, frame, uncaught, clicks>>
gaussVars == <<u, v, gpc, z, logArgs, zeroDrawn>>
vars == <<gbmVars, uiVars, gaussVars>>

\* the locals of a call that has not run yet
FreshLocals ==
  /\ returns = <<>>
  /\ meanReturn = Undefined
  /\ variance = Undefined
  /\ volatility = Undefined
  /\ drift = Undefined
  /\ lastPrice = Undefined
  /\ allPaths = <<>>
  /\ sim = 0
  /\ path = <<>>
  /\ currentPrice = Undefined
  /\ t = 0
  /\ minPathIndex = -1
  /\ maxPathIndex = -1
  /\ randomIndices = <<>>
  /\ aggregatedData = <<>>
  /\ ret = NullResult
  /\ thrown = "none"
  /\ gaussianCalls = 0

\* ---------------------------------------------------------------- generateGaussian
\* One call returns sqrt(-2 ln u) * cos(2 pi v) for two uniforms redrawn while
\* 0: a finite number, one of GaussianVals in a call of runGBM.
generateGaussian == GaussianVals

\* The call itself, draw by draw.  Math.random() returns a number of [0, 1):
\* here k/8 for k in 0..7, held by k.
RandomVals == 0..7

\* Math.log(k/8) in thousandths, for k in 1..7
LnMilli(k) ==
  CASE k = 1 -> -2079
    [] k = 2 -> -1386
    [] k = 3 -> -981
    [] k = 4 -> -693
    [] k = 5 -> -470
    [] k = 6 -> -288
    [] k = 7 -> -134

\* Math.log(x) for x = k/8: -Infinity at 0
MathLog(k) == IF k = 0 THEN Inf(-1) ELSE Num(RoundDiv(LnMilli(k) * Scale, 1000))

\* Math.cos(2.0 * Math.PI * x) in thousandths, for x = k/8
CosMilli(k) ==
  CASE k = 0 -> 1000
    [] k = 1 -> 707
    [] k = 2 -> 0
    [] k = 3 -> -707
    [] k = 4 -> -1000
    [] k = 5 -> -707
    [] k = 6 -> 0
    [] k = 7 -> 707

MathCos2Pi(k) == Num(RoundDiv(CosMilli(k) * Scale, 1000))

\* line 59: Math.sqrt(-2.0 * Math.log(u)) * Math.cos(2.0 * Math.PI * v)
BoxMuller(a, b) == FMul(FSqrt(FMul(Num(-2 * Scale), MathLog(a))), MathCos2Pi(b))

\* a faulty variant: lines 57-58 testing x < 0, which no draw satisfies
NeedsRedraw_Negative(x) == x < 0

\* lines 57-58: the loop test, u === 0 and v === 0
NeedsRedraw(x) == x = 0

\* no call of generateGaussian is being followed
GaussIdle ==
  /\ u = 0
  /\ v = 0
  /\ gpc = "idle"
  /\ z = Undefined
  /\ logArgs = <<>>
  /\ zeroDrawn = FALSE

\* line 57: one pass of while(u === 0) u = Math.random()
DrawU ==
  /\ gpc = "loopU"
  /\ NeedsRedraw(u)
  /\ \E r \in RandomVals :
       /\ u' = r
       /\ zeroDrawn' = (zeroDrawn \/ r = 0)
  /\ UNCHANGED <<v, gpc, z, logArgs>>
  /\ UNCHANGED <<gbmVars, uiVars>>

\* line 57: the loop test fails and the first loop is left
ExitU ==
  /\ gpc = "loopU"
  /\ ~NeedsRedraw(u)
  /\ gpc' = "loopV"
  /\ UNCHANGED <<u, v, z, logArgs, zeroDrawn>>
  /\ UNCHANGED <<gbmVars, uiVars>>

\* line 58: one pass of while(v === 0) v = Math.random()
DrawV ==
  /\ gpc = "loopV"
  /\ NeedsRedraw(v)
  /\ \E r \in RandomVals :
       /\ v' = r
       /\ zeroDrawn' = (zeroDrawn \/ r = 0)
  /\ UNCHANGED <<u, gpc, z, logArgs>>
  /\ UNCHANGED <<gbmVars, uiVars>>

\* line 58: the loop test fails and the second loop is left
ExitV ==
  /\ gpc = "loopV"
  /\ ~NeedsRedraw(v)
  /\ gpc' = "formula"
  /\ UNCHANGED <<u, v, z, logArgs, zeroDrawn>>
  /\ UNCHANGED <<gbmVars, uiVars>>

\* line 59: the return statement
BoxMullerReturn ==
  /\ gpc = "formula"
  /\ logArgs' = Append(logArgs, u)
  /\ z' = BoxMuller(u, v)
  /\ gpc' = "returned"
  /\ UNCHANGED <<u, v, zeroDrawn>>
  /\ UNCHANGED <<gbmVars, uiVars>>

\* ---------------------------------------------------------------- runGBM, step by step
\* line 63: if (!historicalPrices || historicalPrices.length === 0) return null;
CheckPrices ==
  /\ pc = "entry"
  /\ IF NoData(historicalPrices)
     THEN /\ ret' = NullResult
          /\ pc' = "done"
     ELSE /\ pc' = "estimate"
          /\ UNCHANGED ret
  /\ UNCHANGED <<gbmArgs, caller, gbmStats, gbmPaths, gbmPicks, aggregatedData,
                 thrown, gaussianCalls>>
  /\ UNCHANGED <<uiVars, gaussVars>>

\* a faulty variant: lines 65-79 after historicalPrices.sort((a, b) => a - b),
\* a sort in place of the caller's array
Estimate_SortsInput ==
  /\ pc = "estimate"
  /\ LET hp == SortAscending(historicalPrices.a)
         rs == LogReturns(hp)
         mean == MeanReturn(rs)
         var == Variance(rs, mean)
     IN  /\ historicalPrices' = [historicalPrices EXCEPT !.a = hp]
         /\ returns' = rs
         /\ meanReturn' = mean
         /\ variance' = var
         /\ volatility' = Volatility(var)
         /\ drift' = Drift(mean, var)
         /\ lastPrice' = LastPrice(hp)
  /\ allPaths' = <<>>
  /\ sim' = 0
  /\ pc' = "paths"
  /\ UNCHANGED <<days, numSimulations, caller, path, currentPrice, t, gbmPicks,
                 aggregatedData, gbmOut, gaussianCalls>>
  /\ UNCHANGED <<uiVars, gaussVars>>

\* lines 65-79: log returns, mean, sample variance, volatility, drift, lastPrice
Estimate ==
  /\ pc = "estimate"
  /\ LET hp == historicalPrices.a
         rs == LogReturns(hp)
         mean == MeanReturn(rs)
         var == Variance(rs, mean)
     IN  /\ returns' = rs
         /\ meanReturn' = mean
         /\ variance' = var
         /\ volatility' = Volatility(var)
         /\ drift' = Drift(mean, var)
         /\ lastPrice' = LastPrice(hp)
  /\ allPaths' = <<>>
  /\ sim' = 0
  /\ pc' = "paths"
  /\ UNCHANGED <<gbmArgs, caller, path, currentPrice, t, gbmPicks, aggregatedData,
                 gbmOut, gaussianCalls>>
  /\ UNCHANGED <<uiVars, gaussVars>>

\* lines 81-83: sim < numSimulations: path = [lastPrice], currentPrice = lastPrice
BeginPath ==
  /\ pc = "paths"
  /\ sim < numSimulations
  /\ path' = <<lastPrice>>
  /\ currentPrice' = lastPrice
  /\ t' = 1
  /\ pc' = "steps"
  /\ UNCHANGED <<gbmArgs, caller, gbmStats, allPaths, sim, gbmPicks, aggregatedData,
                 gbmOut, gaussianCalls>>
  /\ UNCHANGED <<uiVars, gaussVars>>

\* lines 84-89: one day of one path, with one Gaussian draw
PathStep ==
  /\ pc = "steps"
  /\ t <= days
  /\ \E Z \in generateGaussian :
       LET shock == Shock(drift, volatility, Z)
           next == MulExp(currentPrice, shock)
       IN  /\ currentPrice' = next
           /\ path' = Append(path, next)
  /\ t' = t + 1
  /\ gaussianCalls' = gaussianCalls + 1
  /\ UNCHANGED <<gbmArgs, pc, caller, gbmStats, allPaths, sim, gbmPicks,
                 aggregatedData, gbmOut>>
  /\ UNCHANGED <<uiVars, gaussVars>>

\* line 90: allPaths.push(path), and the loop's sim++
EndPath ==
  /\ pc = "steps"
  /\ t > days
  /\ allPaths' = Append(allPaths, path)
  /\ sim' = sim + 1
  /\ pc' = "paths"
  /\ UNCHANGED <<gbmArgs, caller, gbmStats, path, currentPrice, t, gbmPicks,
                 aggregatedData, gbmOut, gaussianCalls>>
  /\ UNCHANGED <<uiVars, gaussVars>>

\* lines 93-98: the paths with the lowest and the highest terminal price.
\* sortedPathIndices[0].index of an empty array reads a property of undefined:
\* a TypeError.
SelectOutliers ==
  /\ pc = "paths"
  /\ sim >= numSimulations
  /\ LET sortedPathIndices == SortedPathIndices(allPaths, days)
     IN  IF Len(sortedPathIndices) = 0
         THEN /\ thrown' = "TypeError"
              /\ pc' = "done"
              /\ UNCHANGED gbmPicks
         ELSE /\ minPathIndex' = sortedPathIndices[1].index
              /\ maxPathIndex' = sortedPathIndices[Len(sortedPathIndices)].index
              /\ pc' = "sample"
              /\ UNCHANGED <<randomIndices, thrown>>
  /\ UNCHANGED <<gbmArgs, caller, gbmStats, gbmPaths, aggregatedData, ret,
                 gaussianCalls>>
  /\ UNCHANGED <<uiVars, gaussVars>>

\* line 100: the sampled indices, each Math.floor(Math.random() * numSimulations)
SampleIndices ==
  /\ pc = "sample"
  /\ \E rnd \in [1..SampleCount -> 0..(numSimulations - 1)] :
       randomIndices' = rnd
  /\ aggregatedData' = <<>>
  /\ t' = 0
  /\ pc' = "aggregate"
  /\ UNCHANGED <<gbmArgs, caller, gbmStats, allPaths, sim, path, currentPrice,
                 minPathIndex, maxPathIndex, gbmOut, gaussianCalls>>
  /\ UNCHANGED <<uiVars, gaussVars>>

\* lines 103-128: the aggregate of day t
AggregateDay ==
  /\ pc = "aggregate"
  /\ t <= days
  /\ aggregatedData' =
       Append(aggregatedData,
              DayData(allPaths, t, numSimulations, minPathIndex, maxPathIndex,
                      randomIndices))
  /\ t' = t + 1
  /\ UNCHANGED <<gbmArgs, pc, caller, gbmStats, allPaths, sim, path, currentPrice,
                 gbmPicks, gbmOut, gaussianCalls>>
  /\ UNCHANGED <<uiVars, gaussVars>>

\* lines 130-139: the result.  aggregatedData[days].median of a missing element
\* reads a property of undefined: a TypeError.
Return ==
  /\ pc = "aggregate"
  /\ t > days
  /\ IF days \in 0..(Len(aggregatedData) - 1)
     THEN /\ ret' = SimResult(aggregatedData,
                              StatsOf(lastPrice, aggregatedData[days + 1], volatility))
          /\ UNCHANGED thrown
     ELSE /\ thrown' = "TypeError"
          /\ UNCHANGED ret
  /\ pc' = "done"
  /\ UNCHANGED <<gbmArgs, caller, gbmStats, gbmPaths, gbmPicks, aggregatedData,
                 gaussianCalls>>
  /\ UNCHANGED <<uiVars, gaussVars>>

\* ---------------------------------------------------------------- the page
\* the coins of the list, and what the klines endpoint can answer for each:
\* no rows, or the coin's closing prices
Coins == {"AAAUSDT", "BBBUSDT"}
NoCoin == "none"
Klines(coin) ==
  IF coin = "AAAUSDT"
  THEN {<<>>, <<Num(0), Num(3), Num(0)>>}
  ELSE {<<>>, <<Num(3), Num(0), Num(3)>>}

\* the durations of the buttons [20, 50, 100], in days of the model; the
\* first is the initial duration (useState(20))
DurationChoices == {1, 2}
InitialDuration == CHOOSE d \in DurationChoices : \A e \in DurationChoices : d <= e

\* a waiting callback and the values its closure holds
Task(kind, coin, dur, prices, id) ==
  [kind |-> kind, coin |-> coin, dur |-> dur, prices |-> prices, id |-> id]
NoFrame == Task("none", NoCoin, 0, <<>>, 0)

\* reading .stats of a null result: "TypeError: Cannot read properties of null"
NullStatsError == "TypeError: result is null"

\* the state of the page after the first render
InitPage ==
  /\ view = "home"
  /\ selectedCoin = NoCoin
  /\ duration = InitialDuration
  /\ simResult = NullResult
  /\ historicalData = <<>>
  /\ isSimulating = FALSE
  /\ aiInsight = ""
  /\ newsSummary = ""
  /\ aiLoading = FALSE
  /\ newsLoading = FALSE
  /\ pending = {}
  /\ frame = NoFrame
  /\ uncaught = "none"
  /\ clicks = 0

\* the default of the parameter numSimulations (line 62), which both callers
\* leave out: 500 paths in the code, scaled down to one path here
DefaultNumSimulations == 1

\* runGBM(prices, d) is entered from the callback f: numSimulations takes its
\* default
CallGBM(f, who) ==
  /\ historicalPrices' = Arr(f.prices)
  /\ days' = f.dur
  /\ numSimulations' = DefaultNumSimulations
  /\ pc' = "entry"
  /\ caller' = who
  /\ frame' = f
  /\ UNCHANGED <<gbmStats, gbmPaths, gbmPicks, aggregatedData, gbmOut, gaussianCalls>>

\* the call is over and its locals are gone
LeaveGBM ==
  /\ historicalPrices' = Absent
  /\ days' = 0
  /\ numSimulations' = 0
  /\ pc' = "idle"
  /\ caller' = "none"
  /\ frame' = NoFrame
  /\ returns' = <<>>
  /\ meanReturn' = Undefined
  /\ variance' = Undefined
  /\ volatility' = Undefined
  /\ drift' = Undefined
  /\ lastPrice' = Undefined
  /\ allPaths' = <<>>
  /\ sim' = 0
  /\ path' = <<>>
  /\ currentPrice' = Undefined
  /\ t' = 0
  /\ minPathIndex' = -1
  /\ maxPathIndex' = -1
  /\ randomIndices' = <<>>
  /\ aggregatedData' = <<>>
  /\ ret' = NullResult
  /\ thrown' = "none"
  /\ gaussianCalls' = 0

\* lines 606-616: runAnalysis(coin), up to the setTimeout of 50 ms (the
\* dropdown, the search term and the progress texts are not part of the model)
RunAnalysis ==
  /\ pc = "idle"
  /\ clicks < MaxClicks
  /\ \E coin \in Coins :
       /\ selectedCoin' = coin
       /\ pending' = pending \cup {Task("raTimer", coin, duration, <<>>, clicks + 1)}
  /\ aiInsight' = ""
  /\ newsSummary' = ""
  /\ isSimulating' = TRUE
  /\ clicks' = clicks + 1
  /\ UNCHANGED <<gbmVars, view, duration, simResult, historicalData, aiLoading,
                 newsLoading, frame, uncaught>>
  /\ UNCHANGED gaussVars

\* lines 616-621: the 50 ms timer fires and the klines fetch starts
RunAnalysisFetch ==
  /\ pc = "idle"
  /\ \E f \in pending :
       /\ f.kind = "raTimer"
       /\ pending' = (pending \ {f}) \cup {Task("raFetch", f.coin, f.dur, <<>>, f.id)}
  /\ UNCHANGED <<gbmVars, uiState, frame, uncaught, clicks>>
  /\ UNCHANGED gaussVars

\* lines 621-622, 651-654: the fetch fails (network, !res.ok, bad JSON)
RunAnalysisFetchFailed ==
  /\ pc = "idle"
  /\ \E f \in pending :
       /\ f.kind = "raFetch"
       /\ pending' = pending \ {f}
  /\ isSimulating' = FALSE
  /\ UNCHANGED <<gbmVars, view, selectedCoin, duration, simResult, historicalData,
                 aiInsight, newsSummary, aiLoading, newsLoading, frame, uncaught,
                 clicks>>
  /\ UNCHANGED gaussVars

\* lines 623-628, 649: the fetch answers; closingPrices is kept and the
\* 2500 ms timer is set
RunAnalysisFetched ==
  /\ pc = "idle"
  /\ \E f \in pending :
       /\ f.kind = "raFetch"
       /\ \E closingPrices \in Klines(f.coin) :
            /\ historicalData' = closingPrices
            /\ pending' = (pending \ {f}) \cup
                            {Task("raWait", f.coin, f.dur, closingPrices, f.id)}
  /\ UNCHANGED <<gbmVars, view, selectedCoin, duration, simResult, isSimulating,
                 aiInsight, newsSummary, aiLoading, newsLoading, frame, uncaught,
                 clicks>>
  /\ UNCHANGED gaussVars

\* lines 628-631, 647: the 2500 ms timer fires and sets the 1500 ms timer
RunAnalysisWaited ==
  /\ pc = "idle"
  /\ \E f \in pending :
       /\ f.kind = "raWait"
       /\ pending' = (pending \ {f}) \cup
                       {Task("raCompute", f.coin, f.dur, f.prices, f.id)}
  /\ UNCHANGED <<gbmVars, uiState, frame, uncaught, clicks>>
  /\ UNCHANGED gaussVars

\* lines 631-632: the 1500 ms timer fires: runGBM(closingPrices, duration)
RunAnalysisCompute ==
  /\ pc = "idle"
  /\ \E f \in pending :
       /\ f.kind = "raCompute"
       /\ pending' = pending \ {f}
       /\ CallGBM(f, "runAnalysis")
  /\ UNCHANGED <<uiState, uncaught, clicks>>
  /\ UNCHANGED gaussVars

\* lines 633-646: the rest of that callback.  result!.stats is evaluated
\* before fetchAIInsight is entered: with result null it is a TypeError, after
\* setAiLoading(true) and before anything of lines 640-645.
RunAnalysisFinish ==
  /\ pc = "done"
  /\ caller = "runAnalysis"
  /\ IF thrown # "none"
     THEN /\ uncaught' = thrown
          /\ UNCHANGED <<simResult, view, isSimulating, aiLoading, newsLoading, pending>>
     ELSE /\ simResult' = ret
          /\ view' = "analysis"
          /\ isSimulating' = FALSE
          /\ aiLoading' = TRUE
          /\ IF ret.isNull
             THEN /\ uncaught' = NullStatsError
                  /\ UNCHANGED <<newsLoading, pending>>
             ELSE /\ newsLoading' = TRUE
                  /\ pending' = pending \cup
                       {Task("ai", frame.coin, frame.dur, <<>>, frame.id),
                        Task("news", frame.coin, frame.dur, <<>>, frame.id)}
                  /\ UNCHANGED uncaught
  /\ LeaveGBM
  /\ UNCHANGED <<selectedCoin, duration, historicalData, aiInsight, newsSummary,
                 clicks>>
  /\ UNCHANGED gaussVars

\* lines 658-664 and 575-587, 603: a duration button, and triggerSimulation up
\* to its setTimeout of 4000 ms.  The buttons are rendered by AnalysisSection:
\* view is 'analysis', nothing is simulating, simResult and selectedCoin are set.
HandleDurationChange ==
  /\ pc = "idle"
  /\ clicks < MaxClicks
  /\ view = "analysis"
  /\ ~isSimulating
  /\ ~simResult.isNull
  /\ selectedCoin # NoCoin
  /\ \E newDuration \in DurationChoices :
       /\ newDuration # duration
       /\ duration' = newDuration
       /\ IF Len(historicalData) > 0
          THEN /\ isSimulating' = TRUE
               /\ aiInsight' = ""
               /\ newsSummary' = ""
               /\ pending' = pending \cup
                    {Task("tsCompute", selectedCoin, newDuration, historicalData,
                          clicks + 1)}
          ELSE UNCHANGED <<isSimulating, aiInsight, newsSummary, pending>>
  /\ clicks' = clicks + 1
  /\ UNCHANGED <<gbmVars, view, selectedCoin, simResult, historicalData, aiLoading,
                 newsLoading, frame, uncaught>>
  /\ UNCHANGED gaussVars

\* lines 587-588: the 4000 ms timer fires: runGBM(dataToSimulate, dayDuration)
TriggerSimulationCompute ==
  /\ pc = "idle"
  /\ \E f \in pending :
       /\ f.kind = "tsCompute"
       /\ pending' = pending \ {f}
       /\ CallGBM(f, "triggerSimulation")
  /\ UNCHANGED <<uiState, uncaught, clicks>>
  /\ UNCHANGED gaussVars

\* lines 589-602: the rest of that callback
TriggerSimulationFinish ==
  /\ pc = "done"
  /\ caller = "triggerSimulation"
  /\ IF thrown # "none"
     THEN /\ uncaught' = thrown
          /\ UNCHANGED <<simResult, isSimulating, aiLoading, newsLoading, pending>>
     ELSE /\ simResult' = ret
          /\ isSimulating' = FALSE
          /\ IF frame.coin # NoCoin /\ ~ret.isNull
             THEN /\ aiLoading' = TRUE
                  /\ newsLoading' = TRUE
                  /\ pending' = pending \cup
                       {Task("ai", frame.coin, frame.dur, <<>>, frame.id),
                        Task("news", frame.coin, frame.dur, <<>>, frame.id)}
             ELSE UNCHANGED <<aiLoading, newsLoading, pending>>
          /\ UNCHANGED uncaught
  /\ LeaveGBM
  /\ UNCHANGED <<view, selectedCoin, duration, historicalData, aiInsight,
                 newsSummary, clicks>>
  /\ UNCHANGED gaussVars

\* lines 152-179 with 594-596 and 639-641: the promise of fetchAIInsight settles
\* (it never rejects): setAiInsight(text), then setAiLoading(false)
AiInsightSettled ==
  /\ pc = "idle"
  /\ \E f \in pending :
       /\ f.kind = "ai"
       /\ pending' = pending \ {f}
       /\ aiInsight' = f.coin
  /\ aiLoading' = FALSE
  /\ UNCHANGED <<gbmVars, view, selectedCoin, duration, simResult, historicalData,
                 isSimulating, newsSummary, newsLoading, frame, uncaught, clicks>>
  /\ UNCHANGED gaussVars

\* lines 181-201 with 598-601 and 643-646: the promise of fetchNewsSummary
\* settles: setNewsSummary(text), then setNewsLoading(false)
NewsSummarySettled ==
  /\ pc = "idle"
  /\ \E f \in pending :
       /\ f.kind = "news"
       /\ pending' = pending \ {f}
       /\ newsSummary' = f.coin
  /\ newsLoading' = FALSE
  /\ UNCHANGED <<gbmVars, view, selectedCoin, duration, simResult, historicalData,
                 isSimulating, aiInsight, aiLoading, frame, uncaught, clicks>>
  /\ UNCHANGED gaussVars

InitApp ==
  /\ historicalPrices = Absent
  /\ days = 0
  /\ numSimulations = 0
  /\ pc = "idle"
  /\ caller = "none"
  /\ FreshLocals
  /\ InitPage
  /\ GaussIdle

NextApp ==
  \/ RunAnalysis
  \/ RunAnalysisFetch
  \/ RunAnalysisFetchFailed
  \/ RunAnalysisFetched
  \/ RunAnalysisWaited
  \/ RunAnalysisCompute
  \/ RunAnalysisFinish
  \/ HandleDurationChange
  \/ TriggerSimulationCompute
  \/ TriggerSimulationFinish
  \/ AiInsightSettled
  \/ NewsSummarySettled
  \/ CheckPrices
  \/ Estimate
  \/ BeginPath
  \/ PathStep
  \/ EndPath
  \/ SelectOutliers
  \/ SampleIndices
  \/ AggregateDay
  \/ Return

SpecApp == InitApp /\ [][NextApp]_vars

\* ---------------------------------------------------------------- a direct call
\* runGBM(historicalPrices, days, numSimulations) called with any arguments
Init ==
  /\ historicalPrices \in {Absent} \cup {Arr(a) : a \in SeriesUpTo(MaxLen)}
  /\ days \in -1..MaxDays
  /\ numSimulations \in -1..MaxSims
  /\ (days > 0 /\ numSimulations > 0) => days * numSimulations <= MaxDraws
  /\ pc = "entry"
  /\ caller = "direct"
  /\ FreshLocals
  /\ InitPage
  /\ GaussIdle

Next ==
  \/ CheckPrices
  \/ Estimate
  \/ BeginPath
  \/ PathStep
  \/ EndPath
  \/ SelectOutliers
  \/ SampleIndices
  \/ AggregateDay
  \/ Return

Spec == Init /\ [][Next]_vars

\* ---------------------------------------------------------------- a call of generateGaussian
\* line 56: let u = 0, v = 0
InitGauss ==
  /\ historicalPrices = Absent
  /\ days = 0
  /\ numSimulations = 0
  /\ pc = "idle"
  /\ caller = "none"
  /\ FreshLocals
  /\ InitPage
  /\ u = 0
  /\ v = 0
  /\ gpc = "loopU"
  /\ z = Undefined
  /\ logArgs = <<>>
  /\ zeroDrawn = FALSE

NextGauss ==
  \/ DrawU
  \/ ExitU
  \/ DrawV
  \/ ExitV
  \/ BoxMullerReturn

\* the random source yields a nonzero value in the end
DrawUNonZero == DrawU /\ u' # 0
DrawVNonZero == DrawV /\ v' # 0

\* The call runs on (the loop tests and the return are taken), and a loop that
\* keeps drawing gets a nonzero value in the end.
SpecGauss ==
  /\ InitGauss
  /\ [][NextGauss]_vars
  /\ WF_vars(ExitU)
  /\ WF_vars(ExitV)
  /\ WF_vars(BoxMullerReturn)
  /\ WF_vars(DrawUNonZero)
  /\ WF_vars(DrawVNonZero)

\* ---------------------------------------------------------------- claims, words
\* the call has a price series with at least one price
HasPrices == ~historicalPrices.absent /\ Len(historicalPrices.a) >= 1
\* the price series the call was given, and its last price
Prices == historicalPrices.a
LastInput == Prices[Len(Prices)]
\* a non-empty series, a horizon and a path count of at least 1
NonEmptyCall == HasPrices /\ days >= 1 /\ numSimulations >= 1
\* a valid input: in none of the error classes (no data, invalid
\* configuration, degenerate statistics: fewer than 2 log returns)
ValidInput == NonEmptyCall /\ Len(Prices) >= 3
\* the call has returned a result object
Returned == pc = "done" /\ thrown = "none" /\ ~ret.isNull
\* p5 <= p25 <= median <= p75 <= p95 in one day aggregate
Ordered(d) ==
  /\ FLeq(d.p5, d.innerRange[1])
  /\ FLeq(d.innerRange[1], d.median)
  /\ FLeq(d.median, d.innerRange[2])
  /\ FLeq(d.innerRange[2], d.p95)
\* the outliers have been chosen
Picked == pc \in {"sample", "aggregate"} \/ Returned

\* C1: for every non-empty price series, every days >= 1 and every
\* numSimulations >= 1 runGBM returns a result whose data has days + 1 entries,
\* the entry at position t having day = t.
C1_DataLength ==
  (pc = "done" /\ NonEmptyCall) =>
    /\ Returned
    /\ Len(ret.data) = days + 1
    /\ \A i \in 0..days : ret.data[i + 1].day = i
C1_Witness ==
  /\ Returned
  /\ NonEmptyCall
  /\ days = 2
  /\ numSimulations = 3
  /\ Len(ret.data) = 3
  /\ ret.data[3].day = 2

\* C2: in every day aggregate returned for a valid input the percentiles are
\* non-decreasing: p5 <= p25 <= median <= p75 <= p95.
C2_PercentilesOrdered ==
  (Returned /\ ValidInput) => \A i \in 1..Len(ret.data) : Ordered(ret.data[i])
C2_Witness ==
  /\ Returned
  /\ ValidInput
  /\ numSimulations = 3
  /\ \E i \in 1..Len(ret.data) :
       /\ IsNum(ret.data[i].p5)
       /\ IsNum(ret.data[i].median)
       /\ IsNum(ret.data[i].p95)
       /\ ret.data[i].p5.v < ret.data[i].median.v
       /\ ret.data[i].median.v < ret.data[i].p95.v

\* C3: the day-0 aggregate's median, p5, p95, outlierMin and outlierMax all
\* equal the last input price, whatever the draws.
C3_DayZeroIsLastPrice ==
  (Returned /\ NonEmptyCall) =>
    LET d == ret.data[1]
    IN  /\ d.day = 0
        /\ FEq(d.median, LastInput)
        /\ FEq(d.p5, LastInput)
        /\ FEq(d.p95, LastInput)
        /\ FEq(d.outlierMin, LastInput)
        /\ FEq(d.outlierMax, LastInput)
C3_Witness ==
  /\ Returned
  /\ ValidInput
  /\ Prices[1] # LastInput
  /\ FEq(ret.data[1].median, LastInput)
  /\ ~FEq(ret.data[2].median, LastInput)

\* C4: the summary copies values already computed: stats.current is the last
\* input price; projectedMedian, projectedLow, projectedHigh are the median, p5
\* and p95 of the aggregate at day = days.
C4_SummaryIsCopy ==
  Returned =>
    /\ ret.stats.current = LastInput
    /\ \E i \in 1..Len(ret.data) :
         /\ ret.data[i].day = days
         /\ ret.stats.projectedMedian = ret.data[i].median
         /\ ret.stats.projectedLow = ret.data[i].p5
         /\ ret.stats.projectedHigh = ret.data[i].p95
C4_Witness ==
  /\ Returned
  /\ ValidInput
  /\ IsNum(ret.stats.projectedLow)
  /\ IsNum(ret.stats.projectedMedian)
  /\ IsNum(ret.stats.projectedHigh)
  /\ ret.stats.projectedLow.v < ret.stats.projectedMedian.v
  /\ ret.stats.projectedMedian.v < ret.stats.projectedHigh.v
  /\ ret.stats.projectedMedian # ret.stats.current

\* C5: for a valid input the path chosen as outlier-max ends at or above every
\* path of the ensemble and the path chosen as outlier-min ends at or below
\* every path; so at the final day outlierMin <= p5 and p95 <= outlierMax.
C5_OutliersAreTerminalExtremes ==
  (Picked /\ ValidInput) =>
    /\ \A i \in 1..Len(allPaths) :
         /\ FLeq(At(allPaths[i], days), At(At(allPaths, maxPathIndex), days))
         /\ FLeq(At(At(allPaths, minPathIndex), days), At(allPaths[i], days))
    /\ Returned =>
         /\ FLeq(ret.data[days + 1].outlierMin, ret.data[days + 1].p5)
         /\ FLeq(ret.data[days + 1].p95, ret.data[days + 1].outlierMax)
C5_Witness ==
  /\ Returned
  /\ ValidInput
  /\ numSimulations = 3
  /\ minPathIndex = 1
  /\ maxPathIndex = 0
  /\ ret.data[days + 1].outlierMin.v < ret.data[days + 1].median.v
  /\ ret.data[days + 1].median.v < ret.data[days + 1].outlierMax.v

\* C6: with the price series absent or empty runGBM returns null for every
\* days and numSimulations, throws nothing, draws no random number and
\* computes no statistic.
C6_NoDataIsNull ==
  (pc = "done" /\ ~HasPrices) =>
    /\ ret.isNull
    /\ thrown = "none"
    /\ gaussianCalls = 0
    /\ randomIndices = <<>>
    /\ returns = <<>>
    /\ meanReturn = Undefined
    /\ variance = Undefined
    /\ volatility = Undefined
    /\ drift = Undefined
    /\ allPaths = <<>>
    /\ aggregatedData = <<>>
C6_Witness ==
  /\ pc = "done"
  /\ ~historicalPrices.absent
  /\ Len(Prices) = 0
  /\ days = 2
  /\ numSimulations = 3
  /\ ret.isNull

\* every price of the path being built, of every finished path and of every
\* field of every day aggregate is c
AllPricesAre(c) ==
  /\ \A i \in 1..Len(path) : path[i] = c
  /\ \A i \in 1..Len(allPaths) : \A j \in 1..Len(allPaths[i]) : allPaths[i][j] = c
  /\ \A i \in 1..Len(aggregatedData) :
       LET d == aggregatedData[i]
       IN  /\ d.median = c
           /\ d.range = <<c, c>>
           /\ d.innerRange = <<c, c>>
           /\ d.p5 = c
           /\ d.p95 = c
           /\ d.outlierMin = c
           /\ d.outlierMax = c
           /\ \A j \in 1..Len(d.sim) : d.sim[j] = c
  /\ Returned => ret.data = aggregatedData
\* the series is constant
ConstantSeries == HasPrices /\ \A i \in 1..Len(Prices) : Prices[i] = Prices[1]
\* the statistics have been computed
Estimated == pc \notin {"entry", "estimate"}

\* C7 as stated: for every constant series of length >= 2 runGBM computes
\* volatility = 0 and drift = 0 and every price of every path and of every day
\* aggregate is the constant, whatever the draws.
C7_ConstantFromTwoPrices ==
  (Estimated /\ ConstantSeries /\ Len(Prices) >= 2) =>
    /\ volatility = Num(0)
    /\ drift = Num(0)
    /\ AllPricesAre(LastInput)
\* C7 as amended: the same for every constant series of length >= 3 (at least
\* two log returns).
C7_ConstantFromThreePrices ==
  (Estimated /\ ConstantSeries /\ Len(Prices) >= 3) =>
    /\ volatility = Num(0)
    /\ drift = Num(0)
    /\ AllPricesAre(LastInput)
C7_Witness ==
  /\ Returned
  /\ ConstantSeries
  /\ Len(Prices) >= 3
  /\ LastInput = Num(3)
  /\ days = 2
  /\ numSimulations = 3
  /\ gaussianCalls = 6
  /\ ret.stats.projectedHigh = Num(3)

\* C8: with fewer than 2 log returns (1 or 2 prices) runGBM fails with a
\* descriptive error and returns no result.
C8_DegenerateStatisticsRejected ==
  (pc = "done" /\ NonEmptyCall /\ Len(Prices) <= 2) =>
    /\ ~Returned
    /\ thrown \notin {"none", "TypeError"}

\* C9: with days <= 0 or numSimulations <= 0 runGBM fails with a configuration
\* error before it generates any path: it returns no result and does not end
\* in the TypeError of a missing array element.
C9_InvalidConfigurationRejected ==
  (pc = "done" /\ HasPrices /\ (days <= 0 \/ numSimulations <= 0)) =>
    /\ ~Returned
    /\ thrown \notin {"none", "TypeError"}
    /\ allPaths = <<>>
    /\ gaussianCalls = 0

\* C10: every caller of runGBM checks the result for null before it reads its
\* stats: when runGBM returns null, neither runAnalysis nor triggerSimulation
\* dereferences the result.
C10_CallersCheckNull == uncaught # NullStatsError

\* a percentile field of a day aggregate holds an element of the cross-section
PercentilesDefined(d) ==
  /\ d.p5 # Undefined
  /\ d.innerRange[1] # Undefined
  /\ d.median # Undefined
  /\ d.innerRange[2] # Undefined
  /\ d.p95 # Undefined
  /\ d.range = <<d.p5, d.p95>>

\* C11: for every numSimulations >= 1 and every q of 0.05, 0.25, 0.5, 0.75,
\* 0.95 the index that reads a percentile from the sorted cross-section lies in
\* 0..numSimulations - 1, and no percentile of any day aggregate is undefined.
C11_PercentileIndexInRange ==
  numSimulations >= 1 =>
    /\ \A pct \in Percentiles :
         PercentileIndex(numSimulations, pct) \in 0..(numSimulations - 1)
    /\ \A i \in 1..Len(aggregatedData) : PercentilesDefined(aggregatedData[i])
C11_Witness ==
  /\ Returned
  /\ numSimulations = 3
  /\ days = 2
  /\ Len(aggregatedData) = 3
  /\ PercentileIndex(numSimulations, 95) = numSimulations - 1
  /\ PercentileIndex(numSimulations, 5) = 0
  /\ IsNum(aggregatedData[3].p95)
  /\ aggregatedData[3].p95 = At(PricesAtT(allPaths, 2), 2)

\* C12: each outlier line is one realized path: with m = minPathIndex and
\* M = maxPathIndex, chosen before the aggregation starts, every day aggregate
\* has outlierMin = the price of path m on that day and outlierMax = the price
\* of path M on that day; they are not the day's lowest and highest price, so
\* on an intermediate day outlierMin can exceed p5 and outlierMax can be below
\* p95 (the witness).
C12_OutliersAreRealizedPaths ==
  (Picked /\ NonEmptyCall) =>
    /\ minPathIndex \in 0..(numSimulations - 1)
    /\ maxPathIndex \in 0..(numSimulations - 1)
    /\ \A i \in 1..Len(aggregatedData) :
         /\ aggregatedData[i].day = i - 1
         /\ aggregatedData[i].outlierMin = At(allPaths[minPathIndex + 1], i - 1)
         /\ aggregatedData[i].outlierMax = At(allPaths[maxPathIndex + 1], i - 1)
    /\ Returned => (ret.data = aggregatedData /\ Len(ret.data) = days + 1)
C12_Witness ==
  /\ Returned
  /\ ValidInput
  /\ days = 2
  /\ numSimulations = 3
  /\ minPathIndex # maxPathIndex
  /\ ret.data[2].outlierMin = At(allPaths[minPathIndex + 1], 1)
  /\ IsNum(ret.data[2].outlierMin)
  /\ IsNum(ret.data[2].outlierMax)
  /\ ret.data[2].outlierMin.v > ret.data[2].p5.v
  /\ ret.data[2].outlierMax.v < ret.data[2].p95.v

\* C13: one call of runGBM draws its sample indices once, SampleCount of them
\* (30 in the code), each in 0..numSimulations - 1, duplicates allowed; for
\* every i the field sim<i> of the aggregate of day t is the price on day t of
\* the path drawn as i-th, the same path for every t; so every sim<i> of day 0
\* is the last input price.
C13_SamplePathsFixed ==
  ((pc = "aggregate" \/ Returned) /\ NonEmptyCall) =>
    /\ Len(randomIndices) = SampleCount
    /\ \A i \in 1..SampleCount : randomIndices[i] \in 0..(numSimulations - 1)
    /\ \A j \in 1..Len(aggregatedData) :
         /\ Len(aggregatedData[j].sim) = SampleCount
         /\ \A i \in 1..SampleCount :
              /\ aggregatedData[j].sim[i] = At(allPaths[randomIndices[i] + 1], j - 1)
              /\ j = 1 => aggregatedData[j].sim[i] = LastInput
    /\ Returned => ret.data = aggregatedData
C13_Witness ==
  /\ Returned
  /\ ValidInput
  /\ days = 2
  /\ numSimulations = 3
  /\ randomIndices[1] = 1
  /\ randomIndices[SampleCount] = 1
  /\ ret.data[3].sim[SampleCount] = ret.data[3].sim[1]
  /\ ret.data[1].sim[1] = LastInput
  /\ IsNum(ret.data[2].sim[1])
  /\ ret.data[2].sim[1] # ret.data[2].median
  /\ ret.data[3].sim[1] # ret.data[3].median
  /\ ret.data[3].sim[1] = At(allPaths[2], 2)

\* C14: runGBM never mutates its input: no step of a call, whether the call
\* returns a result, returns null or throws, changes the caller's price series
\* (its length, its elements, their order); every sort works on an array the
\* call built itself.
C14_InputNotMutated == [][historicalPrices' = historicalPrices]_vars
\* a call that has returned a result, its series still in an order that is not
\* ascending
C14_Witness ==
  /\ Returned
  /\ days = 2
  /\ numSimulations = 3
  /\ Prices = <<Num(3), Num(0), Num(3)>>
  /\ Prices # SortAscending(Prices)
  /\ Len(returns) = 2
  /\ \A i \in 1..Len(ret.data) : IsNum(ret.data[i].median)

\* C16: generateGaussian never takes the logarithm of 0: each of u and v is
\* redrawn while it is 0, so both are nonzero when the Box-Muller formula is
\* evaluated, Math.log is given a nonzero argument and the value returned is
\* finite; and with a random source that yields a nonzero value in the end,
\* the call returns.
C16_NoLogOfZero ==
  /\ [](gpc \in {"formula", "returned"} => (u # 0 /\ v # 0))
  /\ [](gpc = "returned" => (logArgs = <<u>> /\ u # 0 /\ IsNum(z)))
  /\ <>(gpc = "returned")
C16_Witness ==
  /\ gpc = "returned"
  /\ zeroDrawn
  /\ logArgs = <<1>>
  /\ v = 4
  /\ IsNum(z)
  /\ z.v < 0

\* no analysis is in flight: runGBM is not running and no callback of
\* runAnalysis or triggerSimulation is waiting (AI promises may be)
NoAnalysisInFlight ==
  /\ pc = "idle"
  /\ \A f \in pending : f.kind \in {"ai", "news"}
\* the result on display was computed from a price history of the coin
ComputedFrom(result, coin) ==
  \E k \in Klines(coin) : Len(k) > 0 /\ result.stats.current = k[Len(k)]

\* C17: under every interleaving of selections, fetch completions and timer
\* callbacks, once no analysis is in flight the simResult on display was
\* computed from the price history of the selected coin: a callback of an
\* older request that arrives late does not put its result under the coin
\* selected after it.
C17_ResultOfSelectedCoin ==
  (NoAnalysisInFlight /\ selectedCoin # NoCoin /\ ~simResult.isNull) =>
    ComputedFrom(simResult, selectedCoin)

\* nothing is left to run: runGBM is not running and no timer, fetch or AI
\* promise is waiting
Quiescent == pc = "idle" /\ pending = {}

\* C18: every loading flag an analysis turns on is turned off again on every
\* outcome (fetch failure, prices fetched, an empty price list), given that
\* the timers fire and the AI requests settle: when nothing is left to run,
\* isSimulating, aiLoading and newsLoading are all false.
C18_LoadingFlagsCleared ==
  Quiescent => (~isSimulating /\ ~aiLoading /\ ~newsLoading)

====
